---- MODULE Spec2Model ----
(***************************************************************************)
(* Model of the wallet ledger service: WalletService.createTransaction     *)
(* with its retry loop, executeTransaction inside one store transaction,   *)
(* createWallet, validateBalanceConsistency and CurrencyService.convert.   *)
(*                                                                         *)
(* Money is counted in hundredths (the columns are decimal(20,2)), so the  *)
(* amount 15.00 is the integer 1500; a request's amount may have a third   *)
(* decimal, kept next to its hundredths in the field subCent.  Exchange    *)
(* rates are counted in tenths (13.3 is 133).  A wallet's id is its place  *)
(* in the table; a ledger entry's id is the pair of the call and the       *)
(* attempt that inserted it; both stand for the generated uuids.           *)
(***************************************************************************)
EXTENDS Integers, Sequences, FiniteSets, TLC

VARIABLES
    wallets,    \* table "wallets": sequence of rows, the row's id is its index
    ledger,     \* table "transactions": the committed rows, in the order of their commits
    calls,      \* one record per createTransaction call (caller position and locals)
    now,        \* logical clock of the store: ticks at every commit; a row is
                \* stamped, by the statement that writes it, with the time after now
    opened,     \* history: initial balance each wallet was created with
    basis,      \* history: per ledger entry, the wallet version its attempt loaded
    reads       \* one record per call of getBalance, getTransactionHistory or
                \* validateBalanceConsistency (caller position and locals)

vars == <<wallets, ledger, calls, now, opened, basis, reads>>

-----------------------------------------------------------------------------
(* Bounds of the model *)

NumCalls == 2          \* createTransaction calls in the general specification
MaxWallets == 1        \* wallets createWallet may create in the general specification
MaxTxIds == 2          \* distinct transactionId values callers use
Contenders == 4        \* concurrent callers in the contention scenarios
Amount == 1000         \* the amount of the general requests (10.00)
OpeningBalance == 1500 \* the non-zero initial balance of the general specification
Overdrawn == 500       \* magnitude of the negative initial balance a caller may pass
ScenarioBalance == 10000   \* initial balance of the scenario wallet (100.00)
ScenarioAmount == 3000     \* amount of every scenario request (30.00)
MaxAmount == 1000          \* largest amount of the conversion requests (10.00)
AuditAmount == 150         \* amount of the requests with audit fields (1.50)
Resubmits == 2             \* resubmissions of a request whose call was given up
NumReads == 2              \* calls of the read operations
ReadWriters == 1           \* createTransaction calls next to the read operations
CentAmount == 2            \* amount of the requests next to the read operations (0.02)
SubCent == 4               \* third decimal of the amount given to the thousandth (1.504)

(* Program constants *)

MAX_RETRIES == 3
InitialVersion == 1
Tolerance == 1             \* 0.01, the tolerance of validateBalanceConsistency

Undefined == "undefined"
None == [none |-> TRUE]

DEPOSIT == "DEPOSIT"
WITHDRAWAL == "WITHDRAWAL"

-----------------------------------------------------------------------------
(* CurrencyService *)

\* exchangeRates, in tenths of an EGP per unit
ExchangeRates ==
    [c \in {"EGP", "USD", "EUR", "GBP", "SAR", "AED"} |->
        CASE c = "EGP" -> 10
          [] c = "USD" -> 490
          [] c = "EUR" -> 530
          [] c = "GBP" -> 620
          [] c = "SAR" -> 130
          [] c = "AED" -> 133]

\* the spellings, in upper and lower case letters, of the currency codes of the
\* rate table and of the unsupported code XYZ
Spellings ==
    [code \in {"EGP", "USD", "EUR", "GBP", "SAR", "AED", "XYZ"} |->
        CASE code = "EGP" -> {"EGP", "EGp", "EgP", "Egp", "eGP", "eGp", "egP", "egp"}
          [] code = "USD" -> {"USD", "USd", "UsD", "Usd", "uSD", "uSd", "usD", "usd"}
          [] code = "EUR" -> {"EUR", "EUr", "EuR", "Eur", "eUR", "eUr", "euR", "eur"}
          [] code = "GBP" -> {"GBP", "GBp", "GbP", "Gbp", "gBP", "gBp", "gbP", "gbp"}
          [] code = "SAR" -> {"SAR", "SAr", "SaR", "Sar", "sAR", "sAr", "saR", "sar"}
          [] code = "AED" -> {"AED", "AEd", "AeD", "Aed", "aED", "aEd", "aeD", "aed"}
          [] code = "XYZ" -> {"XYZ", "XYz", "XyZ", "Xyz", "xYZ", "xYz", "xyZ", "xyz"}]

\* the upper case of every spelling
UpperCase ==
    [s \in UNION {Spellings[code] : code \in DOMAIN Spellings} |->
        CHOOSE code \in DOMAIN Spellings : s \in Spellings[code]]

\* String.prototype.toUpperCase, on every spelling of these codes; any other
\* string the model handles ("" and strings without lower case letters) is its
\* own upper case
ToUpperCase(s) == IF s \in DOMAIN UpperCase THEN UpperCase[s] ELSE s

\* !this.exchangeRates[code]
RateMissing(code) == code \notin DOMAIN ExchangeRates

\* convert throws Error('Unsupported currency: ...')
ConvertThrows(fromCurrency, toCurrency) ==
    \/ RateMissing(ToUpperCase(fromCurrency))
    \/ RateMissing(ToUpperCase(toCurrency))

\* Math.round(x) for the rational x = num / den, den > 0: floor(x + 1/2)
MathRound(num, den) == (2 * num + den) \div (2 * den)

\* The amounts and rates are IEEE-754 doubles.  For these amounts (in hundredths,
\* all of them up to 100.00) the double amount * rate[from] / rate[to] * 100 lies
\* just below the exact value k + 1/2 (2.65 AED to EGP gives 3524.4999999999995);
\* for every other amount of at most 100.00 with two decimals and every pair of
\* the table the double lies on the exact value's side of the rounding boundary.
ProductsBelowHalf(from, to) ==
    IF from = "EGP" /\ to = "GBP" THEN
        {
         217, 837, 899, 1395, 2015, 2449, 3255, 3441, 3565, 4123,
         4805, 5673, 6293, 6355, 6417, 7285, 7471, 7657, 7719,
         7905, 8835, 9021}
    ELSE IF from = "USD" /\ to = "GBP" THEN
        {
         527, 589, 837, 1085, 1395, 1829, 2263, 2883, 3131, 3565,
         4123, 4681, 4805, 4867, 4991, 5115, 5487, 6355, 6541,
         7471, 7905, 8091, 8587, 8649, 8835, 8959, 9207, 9455,
         9827}
    ELSE IF from = "EUR" /\ to = "GBP" THEN
        {
         217, 589, 837, 1085, 2015, 2697, 2945, 3131, 3441, 3937,
         4061, 4123, 4433, 4619, 5115, 5487, 6169, 7099, 7471,
         7905, 8091, 8463, 8649, 8835, 8897, 9021, 9455}
    ELSE IF from = "SAR" /\ to = "GBP" THEN
        {
         527, 589, 961, 1209, 1829, 2015, 2077, 2883, 3193, 3255,
         3441, 3937, 4061, 4247, 4805, 4991, 5611, 6541, 7099,
         7161, 7285, 7657, 7719, 8649, 8835, 8897, 9083, 9207,
         9269}
    ELSE IF from = "AED" /\ to = "EGP" THEN
        {
         265, 585, 1045, 1185, 1965, 1995, 2215, 2245, 3865, 4055,
         4115, 4305, 4365, 4555, 4615, 4805, 4865, 7735, 7855,
         7985, 8105, 8235, 8355, 8485, 8605, 8735, 8855, 8985,
         9105, 9235, 9355, 9485, 9605, 9735}
    ELSE IF from = "AED" /\ to = "USD" THEN
        {
         1995, 3255, 4305, 4865, 7385, 7735, 8855, 9485}
    ELSE IF from = "AED" /\ to = "EUR" THEN
        {
         265}
    ELSE IF from = "AED" /\ to = "GBP" THEN
        {
         6510}
    ELSE IF from = "AED" /\ to = "SAR" THEN
        {
         7735}
    ELSE {}

\* the double product is below the half the exact product reaches
DoubleBelowHalf(amount, from, to) == amount \in ProductsBelowHalf(from, to)

\* convert: Math.round(amount * rate[from] / rate[to] * 100) / 100, in hundredths
Convert(amount, fromCurrency, toCurrency) ==
    MathRound(amount * ExchangeRates[ToUpperCase(fromCurrency)],
              ExchangeRates[ToUpperCase(toCurrency)])
    - (IF DoubleBelowHalf(amount, ToUpperCase(fromCurrency), ToUpperCase(toCurrency))
       THEN 1 ELSE 0)

ToEGPThrows(fromCurrency) == ConvertThrows(fromCurrency, "EGP")

ToEGPUnconverted(amount, fromCurrency) == amount

ToEGP(amount, fromCurrency) == Convert(amount, fromCurrency, "EGP")

-----------------------------------------------------------------------------
(* Store: rows and queries *)

\* the wallet row a createWallet call inserts
NewWallet(initialBalance, currency, time) ==
    [balance |-> initialBalance, currency |-> currency,
     version |-> InitialVersion, createdAt |-> time, updatedAt |-> time]

\* findOne(Wallet, {where: {id}})
FindWalletPhantom(table, walletId) ==
    IF walletId \in DOMAIN table THEN table[walletId] ELSE NewWallet(0, "EGP", 0)

FindWallet(table, walletId) ==
    IF walletId \in DOMAIN table THEN table[walletId] ELSE None

\* transactionRepository.findOne({where: {transactionId}})
FindOneByTransactionIdOff(table, transactionId) == None

FindOneByTransactionId(table, transactionId) ==
    IF \E i \in DOMAIN table : table[i].transactionId = transactionId
    THEN table[CHOOSE i \in DOMAIN table : table[i].transactionId = transactionId]
    ELSE None

\* the unique index on transactions.transactionId rejects the insert
UniqueViolationOff(table, transactionId) == FALSE

UniqueViolation(table, transactionId) ==
    \E i \in DOMAIN table : table[i].transactionId = transactionId

\* dto.currency || 'EGP'
CurrencyOrDefault(dto) ==
    IF dto.currency = Undefined \/ dto.currency = "" THEN "EGP" ELSE dto.currency

\* dto.type === DEPOSIT ? convertedAmount : -convertedAmount
TransactionImpactUnsigned(type, convertedAmount) == convertedAmount

TransactionImpact(type, convertedAmount) ==
    IF type = DEPOSIT THEN convertedAmount ELSE 0 - convertedAmount

\* the guard of step 5: newBalance < 0
BalanceGoesNegativeOrZero(newBalance) == newBalance <= 0

BalanceGoesNegativeOff(newBalance) == FALSE

BalanceGoesNegative(newBalance) == newBalance < 0

\* entityManager.create(Transaction, {...}) as persisted by save
NewTransactionConverted(id, dto, impact, time) ==
    [id |-> id,
     transactionId |-> dto.transactionId,
     walletId |-> dto.walletId,
     type |-> dto.type,
     amount |-> IF impact < 0 THEN 0 - impact ELSE impact,
     subCent |-> 0,
     currency |-> "EGP",
     convertedAmount |-> impact,
     metadata |-> dto.metadata,
     createdAt |-> time]

NewTransaction(id, dto, impact, time) ==
    [id |-> id,
     transactionId |-> dto.transactionId,
     walletId |-> dto.walletId,
     type |-> dto.type,
     amount |-> dto.amount,
     subCent |-> dto.subCent,
     currency |-> CurrencyOrDefault(dto),
     convertedAmount |-> impact,
     metadata |-> dto.metadata,
     createdAt |-> time]

\* mapToResponseDto
MapToResponseDtoUnsigned(transaction) ==
    [id |-> transaction.id,
     transactionId |-> transaction.transactionId,
     walletId |-> transaction.walletId,
     type |-> transaction.type,
     amount |-> transaction.amount,
     subCent |-> transaction.subCent,
     currency |-> transaction.currency,
     convertedAmount |-> transaction.amount,
     metadata |-> transaction.metadata,
     createdAt |-> transaction.createdAt]

MapToResponseDto(transaction) ==
    [id |-> transaction.id,
     transactionId |-> transaction.transactionId,
     walletId |-> transaction.walletId,
     type |-> transaction.type,
     amount |-> transaction.amount,
     subCent |-> transaction.subCent,
     currency |-> transaction.currency,
     convertedAmount |-> transaction.convertedAmount,
     metadata |-> transaction.metadata,
     createdAt |-> transaction.createdAt]

\* The condition OptimisticLockVersionMismatchError reports, which the catch
\* block of createTransaction retries on: the wallet row no longer has the
\* version the attempt loaded.
VersionMatchesNever(loadedVersion, storedVersion) == FALSE

VersionMatches(loadedVersion, storedVersion) == loadedVersion = storedVersion

\* What save(Wallet, wallet) may answer, as "the write is rejected".  The call
\* (line 132) carries no version condition and the wallet was loaded by a plain
\* findOne without a lock: it updates the row by its id and increments the
\* version column, even when the row was written since it was loaded, and so
\* is never rejected by a comparison made in the service.  The lock error the
\* catch block expects can come from the store only, and only for such a stale
\* write; both answers to a stale write are behaviours of the model.
SaveRejected(loadedVersion, storedVersion) ==
    IF VersionMatches(loadedVersion, storedVersion) THEN {FALSE} ELSE {TRUE, FALSE}

\* the value the column amount, a decimal(20,2), holds for the amount written
\* to it: the number rounded to two decimals, a half going away from zero
DecimalColumn(transaction) ==
    [transaction EXCEPT !.amount = IF transaction.subCent >= 5 THEN @ + 1 ELSE @,
                        !.subCent = 0]

\* entityManager.save(Transaction, transaction): one more row, with the values
\* its columns hold
InsertTransactionOverwrite(table, transaction) ==
    IF table = <<>> THEN <<DecimalColumn(transaction)>>
    ELSE [table EXCEPT ![Len(table)] = DecimalColumn(transaction)]

InsertTransaction(table, transaction) == Append(table, DecimalColumn(transaction))

\* wallet.balance = newBalance; entityManager.save(Wallet, wallet): the row with
\* the new balance, the version column incremented and updatedAt set
SavedWalletSameBalance(wallet, newBalance, time) ==
    [wallet EXCEPT !.version = @ + 1, !.updatedAt = time]

SavedWalletSameVersion(wallet, newBalance, time) ==
    [wallet EXCEPT !.balance = newBalance, !.updatedAt = time]

SavedWallet(wallet, newBalance, time) ==
    [wallet EXCEPT !.balance = newBalance,
                   !.version = @ + 1,
                   !.updatedAt = time]

\* new WalletNotFoundException(walletId)
WalletNotFoundException(walletId) ==
    [class |-> "WalletNotFoundException", statusCode |-> 404,
     error |-> "WALLET_NOT_FOUND", walletId |-> walletId]

(***************************************************************************)
(* Subtraction of doubles.  An amount of x hundredths is held as the       *)
(* IEEE-754 double nearest to x / 100, which is x / 100 itself only when   *)
(* x is a multiple of 25; the difference of two such doubles is rounded to *)
(* a double again.  It is given here as the pair of the exact difference   *)
(* d in hundredths and the distance, in halves of the unit in the last     *)
(* place of the double nearest to d / 100, of the result from that double: *)
(* 10 - 9.99 is <<1, -246>>, the double 0.009999999999999787, which lies   *)
(* 123 units in the last place below the double 0.01.  The operators work  *)
(* on residues, so that no intermediate value leaves 32 bits for amounts   *)
(* of a magnitude below 2^22 hundredths.                                   *)
(***************************************************************************)
PowerOfTwo(k) == 2 ^ k

\* 2^k modulo n, for n = 100 and n = 200: the residues of the powers of two
\* modulo 25 repeat every 20 exponents, so those modulo 100 and 200 do from
\* the exponent 3 on
PowerOfTwoMod(k, n) ==
    IF k < 3 THEN PowerOfTwo(k) % n ELSE PowerOfTwo(3 + ((k - 3) % 20)) % n

RECURSIVE ExponentFrom(_, _)
ExponentFrom(x, e) ==
    IF 100 * PowerOfTwo(e + 1) <= x THEN ExponentFrom(x, e + 1) ELSE e

RECURSIVE ShiftFrom(_, _)
ShiftFrom(x, j) == IF x * PowerOfTwo(j) < 100 THEN ShiftFrom(x, j + 1) ELSE j

\* the binary exponent of x / 100, for x > 0: floor(log2(x / 100))
BinaryExponent(x) == IF x >= 100 THEN ExponentFrom(x, 0) ELSE 0 - ShiftFrom(x, 0)

\* x / 100 is a power of two
IsPowerOfTwo(x) ==
    LET e == BinaryExponent(x)
    IN  IF e >= 0 THEN x = 100 * PowerOfTwo(e) ELSE x * PowerOfTwo(0 - e) = 100

\* k such that the unit in the last place of the double x / 100 is 2^-k: the
\* significand has 52 bits after the leading one
UlpScale(x) == 52 - BinaryExponent(x)

\* the representation error of the double nearest to x / 100, for x >= 0, in
\* hundredths of its unit in the last place: 100 * significand - x * 2^k.  The
\* residue of x * 2^k is never 50, so the rounding meets no tie.
RoundingError(x) ==
    IF x = 0 THEN 0
    ELSE LET rho == ((x % 100) * PowerOfTwoMod(UlpScale(x), 100)) % 100
         IN  IF rho < 50 THEN 0 - rho ELSE 100 - rho

\* the parity of the significand of the double nearest to x / 100
SignificandParity(x) ==
    (((x % 200) * PowerOfTwoMod(UlpScale(x), 200) + RoundingError(x)) % 200) \div 100

\* the representation error of the double of x hundredths, x of either sign, in
\* hundredths of 2^-scale
ScaledError(x, scale) ==
    IF x = 0 THEN 0
    ELSE IF x > 0 THEN RoundingError(x) * PowerOfTwo(scale - UlpScale(x))
    ELSE 0 - RoundingError(0 - x) * PowerOfTwo(scale - UlpScale(0 - x))

\* t / q rounded to the nearest integer, a tie going to the integer that has the
\* parity of parity (round half to even on a significand of that parity)
RoundToEven(t, q, parity) ==
    LET f == t \div q
        rem == t - f * q
    IN  IF 2 * rem < q THEN f
        ELSE IF 2 * rem > q THEN f + 1
        ELSE IF (parity + f) % 2 = 0 THEN f ELSE f + 1

\* a - b for a > b: the exact difference of the two doubles lies t / q half units
\* from the double nearest to (a - b) / 100, and is rounded to the doubles around
\* it, which are a unit apart, or half a unit below a power of two
SubtractGreater(a, b) ==
    LET d == a - b
        kd == UlpScale(d)
        ka == IF a = 0 THEN 0 ELSE UlpScale(IF a < 0 THEN 0 - a ELSE a)
        kb == IF b = 0 THEN 0 ELSE UlpScale(IF b < 0 THEN 0 - b ELSE b)
        scale == IF ka > kd /\ ka >= kb THEN ka
                 ELSE IF kb > kd THEN kb ELSE kd + 1
        t == ScaledError(a, scale) - ScaledError(b, scale)
             - RoundingError(d) * PowerOfTwo(scale - kd)
        q == 100 * PowerOfTwo(scale - kd - 1)
    IN  [hundredths |-> d,
         halfUlps |-> IF t < 0 /\ IsPowerOfTwo(d)
                      THEN RoundToEven(t, q, 0)
                      ELSE 2 * RoundToEven(t, 2 * q, SignificandParity(d))]

\* a - b on doubles
DoubleSubtract(a, b) ==
    IF a = b THEN [hundredths |-> 0, halfUlps |-> 0]
    ELSE IF a > b THEN SubtractGreater(a, b)
    ELSE LET opposite == SubtractGreater(b, a)
         IN  [hundredths |-> 0 - opposite.hundredths,
              halfUlps |-> 0 - opposite.halfUlps]

(***************************************************************************)
(* Amounts with a third decimal.  The request's amount is any number of at *)
(* least 0.01 (@IsNumber() @Min(0.01)); an amount given to the thousandth   *)
(* is the pair of its hundredths (the field amount) and its third decimal  *)
(* digit (the field subCent), t = 10 * amount + subCent thousandths.  Its  *)
(* conversion to EGP is Math.round of the double t / 1000 * rate * 100:    *)
(* away from the exact value k + 1/2 the double lies on the exact value's  *)
(* side; on it (t ends in 5, the rate is a whole number) the two roundings *)
(* of the double arithmetic decide, and they are followed here on          *)
(* residues, for amounts of at most 100.000.                               *)
(***************************************************************************)
RECURSIVE RatioExponentFrom(_, _, _)
RatioExponentFrom(num, den, e) ==
    IF den * PowerOfTwo(e + 1) <= num THEN RatioExponentFrom(num, den, e + 1) ELSE e

RECURSIVE RatioShiftFrom(_, _, _)
RatioShiftFrom(num, den, j) ==
    IF num * PowerOfTwo(j) < den THEN RatioShiftFrom(num, den, j + 1) ELSE j

\* the binary exponent of num / den, for num, den > 0: floor(log2(num / den))
RatioExponent(num, den) ==
    IF num >= den THEN RatioExponentFrom(num, den, 0)
    ELSE 0 - RatioShiftFrom(num, den, 0)

\* 2^k modulo n, for 0 <= k < 90 and n <= 1000
PowerOfTwoResidue(k, n) ==
    LET third == k \div 3
    IN  ((((PowerOfTwo(third) % n) * (PowerOfTwo(third) % n)) % n)
            * (PowerOfTwo(k - 2 * third) % n)) % n

\* k such that the unit in the last place of the double t / 1000 is 2^-k
ThousandthsUlpScale(t) == 52 - RatioExponent(t, 1000)

\* the representation error of the double nearest to t / 1000, in thousandths
\* of its unit in the last place: 1000 * significand - t * 2^k.  The residue of
\* t * 2^k is never 500, so the rounding meets no tie.
ThousandthsError(t) ==
    LET rho == ((t % 1000) * PowerOfTwoResidue(ThousandthsUlpScale(t), 1000)) % 1000
    IN  IF rho < 500 THEN 0 - rho ELSE 1000 - rho

\* the lowest bits of the significand of the double nearest to t / 1000: the
\* significand modulo 2^bits
SignificandLowBits(t, bits) ==
    LET k == ThousandthsUlpScale(t)
        scaled == PowerOfTwo(bits + 3)
                     * (((t % 125) * PowerOfTwoResidue(k - bits - 3, 125)) % 125)
    IN  ((scaled + ThousandthsError(t)) % (1000 * PowerOfTwo(bits))) \div 1000

\* amount * rate for the double amount of t thousandths and a whole rate: the
\* product has gain more bits than the significand holds; the error of its
\* rounding (half to even), in units in the last place of the amount
ProductRounding(t, rate) ==
    LET gain == RatioExponent(t * rate, 1000) - RatioExponent(t, 1000)
        low == (rate * SignificandLowBits(t, gain + 1)) % PowerOfTwo(gain + 1)
        rem == low % PowerOfTwo(gain)
        bit == low \div PowerOfTwo(gain)
    IN  IF gain = 0 THEN 0
        ELSE IF 2 * rem < PowerOfTwo(gain) THEN 0 - rem
        ELSE IF 2 * rem > PowerOfTwo(gain) THEN PowerOfTwo(gain) - rem
        ELSE IF bit = 0 THEN 0 - rem
        ELSE PowerOfTwo(gain) - rem

\* the double amount * rate * 100, whose exact value is k + 1/2, is below k + 1/2:
\* the error of amount * rate (in thousandths of the amount's unit in the last
\* place) is negative and more than half the distance of the doubles around
\* k + 1/2, so that the last multiplication does not round it back
TieRoundsDown(t, rate) ==
    LET error == rate * ThousandthsError(t) + 1000 * ProductRounding(t, rate)
        half == ThousandthsUlpScale(t) - (52 - RatioExponent(t * rate * 10, 100)) - 1
    IN  /\ error < 0
        /\ 0 - error > 10 * PowerOfTwo(IF t * rate * 10 = 50 THEN half - 1 ELSE half)

\* toEGP of the amount of t thousandths, in hundredths
ToEGPThousandths(t, fromCurrency) ==
    LET rate == ExchangeRates[ToUpperCase(fromCurrency)]
    IN  IF t % 10 = 0 THEN ToEGP(t \div 10, fromCurrency)
        ELSE MathRound(t * rate, 100)
             - (IF (t * rate) % 100 = 50 /\ TieRoundsDown(t, rate \div 10)
                THEN 1 ELSE 0)

\* new InsufficientFundsException(balance, requested); shortfall is the double
\* requested - balance
InsufficientFundsExceptionSwapped(balance, requested) ==
    [class |-> "InsufficientFundsException", statusCode |-> 400,
     error |-> "INSUFFICIENT_FUNDS",
     currentBalance |-> requested,
     requestedAmount |-> balance,
     shortfall |-> DoubleSubtract(balance, requested)]

InsufficientFundsException(balance, requested) ==
    [class |-> "InsufficientFundsException", statusCode |-> 400,
     error |-> "INSUFFICIENT_FUNDS",
     currentBalance |-> balance,
     requestedAmount |-> requested,
     shortfall |-> DoubleSubtract(requested, balance)]

\* new Error(`Unsupported currency: ${from}`): a plain Error
UnsupportedCurrencyError(currency) ==
    [class |-> "Error", message |-> "Unsupported currency", currency |-> currency]

\* the store's errors
OptimisticLockVersionMismatchError == [class |-> "OptimisticLockVersionMismatchError"]

QueryFailedError == [class |-> "QueryFailedError"]

\* new Error('Transaction failed after maximum retries'), after the loop
MaximumRetriesError ==
    [class |-> "Error", message |-> "Transaction failed after maximum retries"]

\* error instanceof OptimisticLockVersionMismatchError && attempt < MAX_RETRIES
ShouldRetryNever(errorKind, attempt) == FALSE

ShouldRetryAlways(errorKind, attempt) ==
    errorKind = "OptimisticLockVersionMismatch"

ShouldRetry(errorKind, attempt) ==
    errorKind = "OptimisticLockVersionMismatch" /\ attempt < MAX_RETRIES

\* Math.pow(2, attempt) * 100
BackoffDelay(attempt) == (2 ^ attempt) * 100

\* what the transactions table holds after an attempt that threw: rolled back
LedgerAfterRollbackLeak(table, transaction) == Append(table, transaction)

LedgerAfterRollback(table, transaction) == table

\* SUM(transaction.convertedAmount) WHERE walletId = :walletId  (0 when none)
RECURSIVE SumConvertedAmount(_, _)
SumConvertedAmount(table, walletId) ==
    IF table = <<>> THEN 0
    ELSE LET last == table[Len(table)]
             rest == SubSeq(table, 1, Len(table) - 1)
         IN  (IF last.walletId = walletId THEN last.convertedAmount ELSE 0)
             + SumConvertedAmount(rest, walletId)

Abs(x) == IF x < 0 THEN 0 - x ELSE x

\* The balance and the sum are doubles.  When they differ by exactly 0.01 the
\* double difference is 0.01 only up to the representation errors of the two
\* values, and for these pairs it falls below the double 0.01 (0.03 - 0.02 is
\* 0.009999999999999998).  The set holds the smaller magnitude, in hundredths,
\* of each such pair of equal sign, for magnitudes up to 2.00.
DifferencesBelowTolerance ==
    {2, 5, 7, 8, 10, 11, 14, 17, 20, 23, 28, 34, 40, 46, 56, 68, 81, 93,
     112, 137, 162, 187}

DoubleDifferenceBelow(balance, calculatedBalance) ==
    /\ (balance >= 0 /\ calculatedBalance >= 0)
          \/ (balance <= 0 /\ calculatedBalance <= 0)
    /\ (IF Abs(balance) < Abs(calculatedBalance)
        THEN Abs(balance) ELSE Abs(calculatedBalance)) \in DifferencesBelowTolerance

\* Math.abs(wallet.balance - calculatedBalance) < 0.01
IsConsistent(balance, calculatedBalance) ==
    IF Abs(balance - calculatedBalance) = Tolerance
    THEN DoubleDifferenceBelow(balance, calculatedBalance)
    ELSE Abs(balance - calculatedBalance) < Tolerance

\* validateBalanceConsistency for an existing wallet, on one state of the store
ValidateBalanceConsistency(walletId) ==
    IsConsistent(wallets[walletId].balance, SumConvertedAmount(ledger, walletId))

\* find({where: {walletId}, order: {createdAt: 'DESC'}}): what the query may
\* return, the wallet's rows with the latest createdAt first; rows of one
\* createdAt come in any order
FindTransactions(table, walletId) ==
    LET rows == {i \in DOMAIN table : table[i].walletId = walletId}
        places == 1..Cardinality(rows)
        orders == {f \in [places -> rows] :
                     \A a, b \in places :
                        a < b => /\ f[a] # f[b]
                                 /\ table[f[a]].createdAt >= table[f[b]].createdAt}
    IN  {[k \in places |-> table[f[k]]] : f \in orders}

\* transactions.map(this.mapToResponseDto)
MapAllToResponseDto(transactions) ==
    [i \in DOMAIN transactions |-> MapToResponseDto(transactions[i])]

\* the BalanceResponseDto of getBalance
BalanceResponse(walletId, wallet) ==
    [walletId |-> walletId, balance |-> wallet.balance,
     currency |-> wallet.currency, lastUpdatedAt |-> wallet.updatedAt]

\* the read operations only query: the tables after a findOne, a find or the
\* SUM query are the tables before it
WalletsAfterReadTouched(table, walletId, time) ==
    IF walletId \in DOMAIN table
    THEN [table EXCEPT ![walletId].updatedAt = time + 1]
    ELSE table

WalletsAfterRead(table, walletId, time) == table

-----------------------------------------------------------------------------
(* Callers *)

\* firstVersion is kept for the statements about a call as a whole: the
\* version of the wallet row at the first load of a call that is running
IdleCall ==
    [pc |-> "idle", dto |-> None, attempt |-> 0, loaded |-> None,
     impact |-> 0, newBalance |-> 0, transaction |-> None, written |-> None,
     firstVersion |-> None,
     outcome |-> "none", result |-> None, delays |-> <<>>, error |-> None]

\* the call returned
Finish(call, outcome, result) ==
    [call EXCEPT !.pc = "done", !.outcome = outcome, !.result = result,
                 !.firstVersion = None]

\* the call threw
Throw(call, outcome, error) ==
    [call EXCEPT !.pc = "done", !.outcome = outcome, !.error = error,
                 !.firstVersion = None]

(***************************************************************************)
(* createTransaction is an async function: at each await of a store round  *)
(* trip, and in the sleep before a retry, it returns to the event loop,    *)
(* where the steps of other callers run.  Each action below is the code    *)
(* from the completion of one round trip to the next await, and pc says    *)
(* which round trip the call is waiting for:                               *)
(*   "load"    the findOne of the wallet (line 83), first attempt          *)
(*   "sleep"   the timer of the sleep (line 64), then the next findOne     *)
(*   "insert"  save(Transaction, transaction)   (line 128)                 *)
(*   "write"   save(Wallet, wallet)             (line 132)                 *)
(*   "commit"  the commit of dataSource.transaction (line 139)             *)
(* The rows an attempt writes are held in the call's record until its      *)
(* commit: other callers' queries read committed rows only.                *)
(***************************************************************************)

\* createTransaction up to the idempotency lookup and its branch.  The lookup
\* reads committed rows only.  Callers are interchangeable, so the call slots
\* are taken in order (slot c is used after slot c - 1): every interleaving of
\* the callers' store operations remains, up to the naming of the slots.
Lookup(c, dto) ==
    /\ calls[c].pc = "idle"
    /\ IF c = 1 THEN TRUE ELSE calls[c - 1].pc # "idle"
    /\ LET existingTransaction == FindOneByTransactionId(ledger, dto.transactionId)
           call == [calls[c] EXCEPT !.dto = dto]
       IN  calls' = [calls EXCEPT ![c] =
               IF existingTransaction # None
               THEN Finish(call, "hit", MapToResponseDto(existingTransaction))
               ELSE [call EXCEPT !.pc = "load", !.attempt = 1]]
    /\ UNCHANGED <<wallets, ledger, now, opened, basis, reads>>

\* this.currencyService.toEGP(dto.amount, dto.currency || 'EGP')
ConvertedAmount(dto) ==
    IF dto.subCent = 0 THEN ToEGP(dto.amount, CurrencyOrDefault(dto))
    ELSE ToEGPThousandths(10 * dto.amount + dto.subCent, CurrencyOrDefault(dto))

\* executeTransaction steps 1 to 5: load the wallet, convert, funds check; for
\* a retry, after the timer of the sleep has fired and the loop has counted the
\* next attempt (attempt++)
Load(c) ==
    /\ calls[c].pc \in {"load", "sleep"}
    /\ LET call == [calls[c] EXCEPT
                       !.attempt = IF calls[c].pc = "sleep" THEN @ + 1 ELSE @]
           dto == call.dto
           wallet == FindWallet(wallets, dto.walletId)
           currency == CurrencyOrDefault(dto)
           convertedAmount == ConvertedAmount(dto)
           transactionImpact == TransactionImpact(dto.type, convertedAmount)
           newBalance == wallet.balance + transactionImpact
       IN  calls' = [calls EXCEPT ![c] =
               IF wallet = None
               THEN Throw(call, "WalletNotFound",
                          WalletNotFoundException(dto.walletId))
               ELSE IF ToEGPThrows(currency)
               THEN Throw(call, "UnsupportedCurrency",
                          UnsupportedCurrencyError(ToUpperCase(currency)))
               ELSE IF BalanceGoesNegative(newBalance)
               THEN Throw(call, "InsufficientFunds",
                          InsufficientFundsException(wallet.balance,
                                                     Abs(transactionImpact)))
               ELSE [call EXCEPT !.pc = "insert",
                                 !.loaded = wallet,
                                 !.firstVersion = IF call.attempt = 1
                                                  THEN wallet.version ELSE @,
                                 !.impact = transactionImpact,
                                 !.newBalance = newBalance]]
    /\ UNCHANGED <<wallets, ledger, now, opened, basis, reads>>

\* another store transaction holds a row with this transactionId that it has
\* inserted and not yet committed or rolled back: the unique index makes an
\* insert of the same key wait for the end of that transaction
InsertPending(c, transactionId) ==
    \E d \in DOMAIN calls :
       /\ d # c
       /\ calls[d].pc \in {"write", "commit"}
       /\ calls[d].dto.transactionId = transactionId

\* another store transaction has written the wallet row and not yet committed:
\* it holds the lock of the row, and an update of the row waits for its end
WalletLocked(c, walletId) ==
    \E d \in DOMAIN calls :
       /\ d # c
       /\ calls[d].pc = "commit"
       /\ calls[d].dto.walletId = walletId

\* @PrimaryGeneratedColumn('uuid'): the id generated for the row that the given
\* attempt of call c inserts, unlike the id of any other insert
GeneratedId(c, attempt) == <<c, attempt>>

\* executeTransaction step 6: entityManager.create and save(Transaction,
\* transaction) return (line 128).  The row has its id and its createdAt from
\* this statement on; it stays invisible to other callers until the commit.  A
\* duplicate key makes the insert throw: the attempt is rolled back and the
\* catch block rethrows the QueryFailedError.
SaveTransaction(c) ==
    /\ calls[c].pc = "insert"
    /\ ~InsertPending(c, calls[c].dto.transactionId)
    /\ LET call == calls[c]
           dto == call.dto
           transaction == NewTransaction(GeneratedId(c, call.attempt), dto,
                                         call.impact, now + 1)
       IN  IF UniqueViolation(ledger, dto.transactionId)
           THEN /\ ledger' = LedgerAfterRollback(ledger, transaction)
                /\ calls' = [calls EXCEPT ![c] =
                       Throw(call, "QueryFailed", QueryFailedError)]
           ELSE /\ ledger' = ledger
                /\ calls' = [calls EXCEPT ![c] =
                       [call EXCEPT !.pc = "write", !.transaction = transaction]]
    /\ UNCHANGED <<wallets, now, opened, basis, reads>>

\* executeTransaction step 7: wallet.balance = newBalance and save(Wallet,
\* wallet) return (line 132).  A write the store accepts is held, with the row
\* locked, until the commit.  A write the store rejects throws
\* OptimisticLockVersionMismatchError: the attempt is rolled back, its insert
\* with it, and the catch block of createTransaction's loop starts the sleep
\* before the next attempt or rethrows.
SaveWallet(c) ==
    /\ calls[c].pc = "write"
    /\ ~WalletLocked(c, calls[c].dto.walletId)
    /\ LET call == calls[c]
           w == call.dto.walletId
       IN  \E rejected \in SaveRejected(call.loaded.version, wallets[w].version) :
              IF rejected
              THEN /\ ledger' = LedgerAfterRollback(ledger, call.transaction)
                   /\ calls' = [calls EXCEPT ![c] =
                          IF ShouldRetry("OptimisticLockVersionMismatch", call.attempt)
                          THEN [call EXCEPT !.pc = "sleep",
                                            !.loaded = None,
                                            !.transaction = None,
                                            !.delays = Append(call.delays,
                                                              BackoffDelay(call.attempt))]
                          ELSE Throw(call, "OptimisticLockVersionMismatch",
                                     OptimisticLockVersionMismatchError)]
              ELSE \* the row gets the balance computed from the loaded one,
                   \* whatever was committed since the load
                   /\ ledger' = ledger
                   /\ calls' = [calls EXCEPT ![c] =
                          [call EXCEPT !.pc = "commit",
                                       !.written = SavedWallet(wallets[w],
                                                               call.newBalance,
                                                               now + 1)]]
    /\ UNCHANGED <<wallets, now, opened, basis, reads>>

\* the callback of dataSource.transaction returns mapToResponseDto(transaction)
\* (line 138) and the store transaction commits (line 139): the inserted row and
\* the wallet row become visible to other callers together
Commit(c) ==
    /\ calls[c].pc = "commit"
    /\ LET call == calls[c]
       IN  /\ ledger' = InsertTransaction(ledger, call.transaction)
           /\ wallets' = [wallets EXCEPT ![call.dto.walletId] = call.written]
           /\ basis' = Append(basis, call.loaded.version)
           /\ calls' = [calls EXCEPT ![c] =
                  Finish(call, "ok", MapToResponseDto(call.transaction))]
    /\ now' = now + 1
    /\ UNCHANGED <<opened, reads>>

\* createWallet
CreateWallet(initialBalance, currency) ==
    /\ wallets' = Append(wallets, NewWallet(initialBalance, currency, now + 1))
    /\ opened' = Append(opened, initialBalance)
    /\ now' = now + 1
    /\ UNCHANGED <<ledger, calls, basis, reads>>

-----------------------------------------------------------------------------
(* General specification: any wallets, any requests from a small domain *)

Request(transactionId, walletId, type, amount, currency) ==
    [transactionId |-> transactionId, walletId |-> walletId, type |-> type,
     amount |-> amount, subCent |-> 0, currency |-> currency,
     metadata |-> Undefined]

Requests ==
    {Request(t, w, k, Amount, "EGP") :
        t \in 1..MaxTxIds, w \in 1..MaxWallets, k \in {DEPOSIT, WITHDRAWAL}}
    \cup {Request(1, 1, DEPOSIT, Amount, "XYZ")}

InitialBalances == {0 - Overdrawn, 0, OpeningBalance}

NoCalls(n) == [c \in 1..n |-> IdleCall]

Init ==
    /\ wallets = <<>>
    /\ ledger = <<>>
    /\ calls = NoCalls(NumCalls)
    /\ now = 0
    /\ opened = <<>>
    /\ basis = <<>>
    /\ reads = <<>>

Next ==
    \/ \E b \in InitialBalances :
          Len(wallets) < MaxWallets /\ CreateWallet(b, "EGP")
    \/ \E c \in DOMAIN calls, dto \in Requests : Lookup(c, dto)
    \/ \E c \in DOMAIN calls : Load(c)
    \/ \E c \in DOMAIN calls : SaveTransaction(c)
    \/ \E c \in DOMAIN calls : SaveWallet(c)
    \/ \E c \in DOMAIN calls : Commit(c)

Spec == Init /\ [][Next]_vars

-----------------------------------------------------------------------------
(* Contention scenarios: one wallet created with ScenarioBalance, and        *)
(* Contenders callers that submit their requests concurrently                *)

InitScenario ==
    /\ wallets = <<NewWallet(ScenarioBalance, "EGP", 1)>>
    /\ ledger = <<>>
    /\ calls = NoCalls(Contenders)
    /\ now = 1
    /\ opened = <<ScenarioBalance>>
    /\ basis = <<>>
    /\ reads = <<>>

\* concurrent deposits with pairwise distinct transactionIds
DepositOf(c) == Request(c, 1, DEPOSIT, ScenarioAmount, "EGP")

NextDeposits ==
    \/ \E c \in DOMAIN calls : Lookup(c, DepositOf(c))
    \/ \E c \in DOMAIN calls : Load(c)
    \/ \E c \in DOMAIN calls : SaveTransaction(c)
    \/ \E c \in DOMAIN calls : SaveWallet(c)
    \/ \E c \in DOMAIN calls : Commit(c)

SpecDeposits == InitScenario /\ [][NextDeposits]_vars

\* concurrent withdrawals with pairwise distinct transactionIds
WithdrawalOf(c) == Request(c, 1, WITHDRAWAL, ScenarioAmount, "EGP")

NextWithdrawals ==
    \/ \E c \in DOMAIN calls : Lookup(c, WithdrawalOf(c))
    \/ \E c \in DOMAIN calls : Load(c)
    \/ \E c \in DOMAIN calls : SaveTransaction(c)
    \/ \E c \in DOMAIN calls : SaveWallet(c)
    \/ \E c \in DOMAIN calls : Commit(c)

SpecWithdrawals == InitScenario /\ [][NextWithdrawals]_vars

\* i % 2 === 0 ? DEPOSIT : WITHDRAWAL, with pairwise distinct transactionIds
MixedOf(c) ==
    Request(c, 1, IF c % 2 = 0 THEN DEPOSIT ELSE WITHDRAWAL, ScenarioAmount, "EGP")

NextMixed ==
    \/ \E c \in DOMAIN calls : Lookup(c, MixedOf(c))
    \/ \E c \in DOMAIN calls : Load(c)
    \/ \E c \in DOMAIN calls : SaveTransaction(c)
    \/ \E c \in DOMAIN calls : SaveWallet(c)
    \/ \E c \in DOMAIN calls : Commit(c)

SpecMixed == InitScenario /\ [][NextMixed]_vars

\* concurrent duplicates: every caller submits the same request
Duplicate == Request(1, 1, DEPOSIT, ScenarioAmount, "EGP")

NextDuplicates ==
    \/ \E c \in DOMAIN calls : Lookup(c, Duplicate)
    \/ \E c \in DOMAIN calls : Load(c)
    \/ \E c \in DOMAIN calls : SaveTransaction(c)
    \/ \E c \in DOMAIN calls : SaveWallet(c)
    \/ \E c \in DOMAIN calls : Commit(c)

SpecDuplicates == InitScenario /\ [][NextDuplicates]_vars

-----------------------------------------------------------------------------
(* Properties *)

Done(c) == calls[c].pc = "done"

AllDone == \A c \in DOMAIN calls : Done(c)

\* no attempt is between its wallet load and its commit or rollback
Quiescent == \A c \in DOMAIN calls : calls[c].pc \in {"idle", "done"}

EntriesOf(walletId) == {i \in DOMAIN ledger : ledger[i].walletId = walletId}

EntriesWith(transactionId) ==
    {i \in DOMAIN ledger : ledger[i].transactionId = transactionId}

CallsWith(outcome) == {c \in DOMAIN calls : calls[c].outcome = outcome}

\* C1: sequential idempotency.  When a call is made after another call with the
\* same transactionId has committed, it returns an entry with the id the first
\* call returned, exactly one entry carries that transactionId, and the call
\* leaves every wallet (so every balance) and the ledger as they were.
SequentialIdempotency ==
    [][\A c \in DOMAIN calls, f \in DOMAIN calls :
          ( /\ calls[c].pc = "idle"
            /\ calls'[c].pc # "idle"
            /\ calls[f].outcome = "ok"
            /\ calls[f].dto.transactionId = calls'[c].dto.transactionId )
          => /\ calls'[c].pc = "done"
             /\ calls'[c].outcome = "hit"
             /\ calls'[c].result.id = calls[f].result.id
             /\ Cardinality(EntriesWith(calls[f].dto.transactionId)) = 1
             /\ wallets' = wallets
             /\ ledger' = ledger]_vars

\* C1 witness: a call has committed and a later call with its transactionId has
\* returned the same entry id.
SequentialIdempotencyWitness ==
    \E c \in DOMAIN calls, f \in DOMAIN calls :
        /\ calls[f].outcome = "ok"
        /\ calls[c].outcome = "hit"
        /\ calls[c].dto.transactionId = calls[f].dto.transactionId
        /\ calls[c].result.id = calls[f].result.id

\* C2: concurrent duplicate collapse.  Callers that all submit one request
\* concurrently never create a second entry with its transactionId, and once all
\* of them have finished exactly one entry exists and the balance has changed by
\* that entry's convertedAmount once (and the version by one).
DuplicateCollapse ==
    /\ Cardinality(EntriesWith(Duplicate.transactionId)) <= 1
    /\ AllDone =>
          /\ Len(ledger) = 1
          /\ ledger[1].transactionId = Duplicate.transactionId
          /\ wallets[1].balance = ScenarioBalance + ledger[1].convertedAmount
          /\ wallets[1].version = InitialVersion + 1

\* C2 witness: all callers have finished and at least two of them had passed the
\* lookup before the entry existed (one committed, another lost the insert).
DuplicateCollapseWitness ==
    /\ AllDone
    /\ CallsWith("ok") # {}
    /\ CallsWith("QueryFailed") # {}

\* C3: duplicate-insert race recovery.  No caller of a concurrent duplicate
\* observes an error, and all of them return the same entry id.
DuplicateRaceRecovery ==
    \A c \in DOMAIN calls :
        Done(c) =>
            /\ calls[c].outcome \in {"ok", "hit"}
            /\ \A d \in DOMAIN calls :
                  (Done(d) /\ calls[d].outcome \in {"ok", "hit"})
                      => calls[d].result.id = calls[c].result.id

\* C4: non-negativity.  The stored balance of every wallet created with an
\* initial balance >= 0 is >= 0 in every reachable state.
NonNegativeBalance ==
    \A w \in DOMAIN wallets : opened[w] >= 0 => wallets[w].balance >= 0

\* C4 witness: a wallet opened with a balance >= 0 has a committed withdrawal and
\* a withdrawal against it was rejected.
NonNegativeBalanceWitness ==
    \E w \in DOMAIN wallets :
        /\ opened[w] >= 0
        /\ \E i \in EntriesOf(w) : ledger[i].type = WITHDRAWAL
        /\ \E c \in CallsWith("InsufficientFunds") : calls[c].dto.walletId = w

\* C5: no lost updates.  Every committed balance write was made by an attempt that
\* loaded the version the wallet had at the commit, no two entries of a wallet
\* were committed from the same loaded version, and no committed effect is
\* overwritten: the balance is the initial balance plus every committed
\* convertedAmount of the wallet.  (The wallet write is a plain save: of two
\* attempts that loaded the same version both can commit, and the later one
\* writes the balance it computed from the balance it loaded, so every conjunct
\* fails.)
NoLostUpdates ==
    /\ \A i \in DOMAIN ledger :
          basis[i] = InitialVersion
                       + Cardinality({j \in EntriesOf(ledger[i].walletId) : j < i})
    /\ \A i \in DOMAIN ledger, j \in DOMAIN ledger :
          (i # j /\ ledger[i].walletId = ledger[j].walletId) => basis[i] # basis[j]
    /\ \A w \in DOMAIN wallets :
          wallets[w].balance = opened[w] + SumConvertedAmount(ledger, w)

\* C6: concurrent conservation.  Concurrent deposits of one amount with pairwise
\* distinct transactionIds all succeed, and once all have finished the balance is
\* B + N*A and the wallet has N entries.
ConcurrentConservation ==
    AllDone =>
        /\ \A c \in DOMAIN calls : calls[c].outcome = "ok"
        /\ wallets[1].balance = ScenarioBalance + Contenders * ScenarioAmount
        /\ Cardinality(EntriesOf(1)) = Contenders

\* C7: reconciliation.  With no mutation in flight, the stored balance of every
\* wallet with applied transactions equals the sum of convertedAmount over its
\* entries and validateBalanceConsistency returns true.
Reconciliation ==
    Quiescent =>
        \A w \in DOMAIN wallets :
            EntriesOf(w) # {} =>
                /\ wallets[w].balance = SumConvertedAmount(ledger, w)
                /\ ValidateBalanceConsistency(w)

Min(a, b) == IF a < b THEN a ELSE b

\* C8: overdraft rejection under contention.  Of the concurrent withdrawals
\* exactly the maximal count that keeps the balance >= 0 succeeds, every other
\* call fails with InsufficientFunds, and the final balance lies in [0, A).
OverdraftRejection ==
    AllDone =>
        /\ Cardinality(CallsWith("ok"))
              = Min(Contenders, ScenarioBalance \div ScenarioAmount)
        /\ \A c \in DOMAIN calls : calls[c].outcome \in {"ok", "InsufficientFunds"}
        /\ wallets[1].balance >= 0
        /\ wallets[1].balance < ScenarioAmount

\* C9: mixed-operation net-zero.  Concurrent deposits and withdrawals of one
\* amount all complete, leave the balance at its starting value plus the net of
\* the requests (zero for equally many of each), and
\* validateBalanceConsistency then returns true.
MixedNetZero ==
    AllDone =>
        /\ \A c \in DOMAIN calls : calls[c].outcome = "ok"
        /\ wallets[1].balance
              = ScenarioBalance
                + ScenarioAmount
                    * ( Cardinality({c \in DOMAIN calls : calls[c].dto.type = DEPOSIT})
                      - Cardinality({c \in DOMAIN calls : calls[c].dto.type = WITHDRAWAL}) )
        /\ ValidateBalanceConsistency(1)

\* the store gained exactly one entry and its wallet its effect, by the step of
\* caller c
CommitsOne(c) ==
    /\ calls[c].pc = "commit"
    /\ calls'[c].outcome = "ok"
    /\ Len(ledger') = Len(ledger) + 1
    /\ SubSeq(ledger', 1, Len(ledger)) = ledger
    /\ LET entry == ledger'[Len(ledger')]
       IN  /\ entry.transactionId = calls[c].dto.transactionId
           /\ entry.walletId \in DOMAIN wallets
           /\ wallets'[entry.walletId].balance
                 = wallets[entry.walletId].balance + entry.convertedAmount
           /\ wallets'[entry.walletId].version
                 = wallets[entry.walletId].version + 1
           /\ \A w \in DOMAIN wallets :
                 w # entry.walletId => wallets'[w] = wallets[w]

StoreUntouched ==
    /\ ledger' = ledger
    /\ \A w \in DOMAIN wallets : wallets'[w] = wallets[w]

\* C10: attempt atomicity.  Every step either leaves the ledger and every existing
\* wallet as they were, or adds one entry together with its convertedAmount on
\* its wallet's balance and one version bump; a step in which an attempt fails
\* (the call throws, or goes to its next attempt) persists nothing.  (The
\* first part fails: an attempt that loaded the wallet before another commit
\* adds its entry and writes the balance it computed from the loaded one, which
\* is not the stored balance plus the entry's convertedAmount.)
AttemptAtomicity ==
    [][ /\ StoreUntouched \/ \E c \in DOMAIN calls : CommitsOne(c)
        /\ \A c \in DOMAIN calls :
              ( /\ calls[c].pc \in {"load", "sleep", "insert", "write", "commit"}
                /\ \/ calls'[c].outcome \notin {"none", "ok"}
                   \/ calls'[c].attempt > calls[c].attempt )
              => StoreUntouched ]_vars

(***************************************************************************)
(* Two wallets side by side: callers address either of them, with          *)
(* transactionIds that may collide across the wallets.                     *)
(***************************************************************************)
InitTwoWallets ==
    /\ wallets = <<NewWallet(OpeningBalance, "EGP", 1), NewWallet(0, "EGP", 2)>>
    /\ ledger = <<>>
    /\ calls = NoCalls(NumCalls)
    /\ now = 2
    /\ opened = <<OpeningBalance, 0>>
    /\ basis = <<>>
    /\ reads = <<>>

RequestsOn(walletIds) ==
    {Request(t, w, k, Amount, "EGP") :
        t \in 1..MaxTxIds, w \in walletIds, k \in {DEPOSIT, WITHDRAWAL}}

NextTwoWallets ==
    \/ \E c \in DOMAIN calls, dto \in RequestsOn(DOMAIN wallets) : Lookup(c, dto)
    \/ \E c \in DOMAIN calls : Load(c)
    \/ \E c \in DOMAIN calls : SaveTransaction(c)
    \/ \E c \in DOMAIN calls : SaveWallet(c)
    \/ \E c \in DOMAIN calls : Commit(c)

SpecTwoWallets == InitTwoWallets /\ [][NextTwoWallets]_vars

\* the step in which call c commits
Commits(c) == calls[c].pc = "commit" /\ calls'[c].outcome = "ok"

\* C11: effect of a committed call.  The step in which a call commits adds exactly
\* one entry, for the wallet the request names; that wallet's balance changes by
\* exactly the entry's convertedAmount; every other wallet and every entry that
\* existed before are unchanged, and no wallet appears or disappears.  (The
\* balance conjunct fails for a commit made on a balance loaded before another
\* call's commit.)
CommittedEffect ==
    [][ \A c \in DOMAIN calls :
           Commits(c) =>
              LET w == calls[c].dto.walletId
              IN  /\ Len(ledger') = Len(ledger) + 1
                  /\ \A i \in DOMAIN ledger : ledger'[i] = ledger[i]
                  /\ ledger'[Len(ledger')].walletId = w
                  /\ ledger'[Len(ledger')].transactionId
                        = calls[c].dto.transactionId
                  /\ calls'[c].result = MapToResponseDto(ledger'[Len(ledger')])
                  /\ DOMAIN wallets' = DOMAIN wallets
                  /\ wallets'[w].balance
                        = wallets[w].balance + ledger'[Len(ledger')].convertedAmount
                  /\ \A o \in DOMAIN wallets : o # w => wallets'[o] = wallets[o]
      ]_vars

\* call c takes a step of its own
Steps(c) == calls'[c] # calls[c]

\* the step in which an attempt of call c loads its wallet: the first attempt,
\* or a retry out of its sleep
Loads(c) == calls[c].pc \in {"load", "sleep"} /\ Steps(c)

\* the number of the attempt that a step of call c in the current state belongs to
AttemptAtStep(c) ==
    IF calls[c].pc = "sleep" THEN calls[c].attempt + 1 ELSE calls[c].attempt

\* the committed entry with the given id
EntryById(id) == ledger[CHOOSE i \in DOMAIN ledger : ledger[i].id = id]

\* the signed amount, in EGP, that call c asks to apply
RequestedImpact(c) ==
    LET dto == calls[c].dto
    IN  IF dto.type = DEPOSIT THEN ToEGP(dto.amount, dto.currency)
        ELSE 0 - ToEGP(dto.amount, dto.currency)

\* a finished call is never taken up again
NotRetried(c) == calls[c].pc = "done" => calls'[c] = calls[c]

\* C12: InsufficientFunds.  When an attempt loads a wallet whose balance plus the
\* signed converted amount is negative, the call ends in that step with
\* InsufficientFundsException carrying currentBalance = the balance just loaded,
\* requestedAmount = the magnitude of the converted amount and shortfall =
\* requestedAmount - currentBalance > 0, the difference of the two numbers it
\* carries as the program's numbers subtract, which is their difference in
\* hundredths up to the last places of a double; nothing is stored in that step,
\* the call is never taken up again, and the exception is raised in no other
\* case.
InsufficientFundsContract ==
    [][ \A c \in DOMAIN calls :
           LET w == calls[c].dto.walletId
               short == /\ w \in DOMAIN wallets
                        /\ ~ToEGPThrows(calls[c].dto.currency)
                        /\ wallets[w].balance + RequestedImpact(c) < 0
           IN  /\ NotRetried(c)
               /\ Loads(c) =>
                     (short <=> calls'[c].outcome = "InsufficientFunds")
               /\ (Steps(c) /\ calls'[c].outcome = "InsufficientFunds") =>
                     /\ Loads(c)
                     /\ calls'[c].pc = "done"
                     /\ calls'[c].attempt = AttemptAtStep(c)
                     /\ calls'[c].result = None
                     /\ calls'[c].error.class = "InsufficientFundsException"
                     /\ calls'[c].error.currentBalance = wallets[w].balance
                     /\ calls'[c].error.requestedAmount = Abs(RequestedImpact(c))
                     /\ calls'[c].error.shortfall
                           = DoubleSubtract(calls'[c].error.requestedAmount,
                                            calls'[c].error.currentBalance)
                     /\ calls'[c].error.shortfall.hundredths
                           = Abs(RequestedImpact(c)) - wallets[w].balance
                     /\ calls'[c].error.shortfall.hundredths > 0
                     /\ StoreUntouched
      ]_vars

\* C12 witness: a call failed for insufficient funds on a retry, against the
\* balance another caller's commit left, which is the balance it reports.
InsufficientFundsContractWitness ==
    \E c \in DOMAIN calls :
       /\ calls[c].outcome = "InsufficientFunds"
       /\ calls[c].attempt >= 2
       /\ calls[c].error.currentBalance = wallets[calls[c].dto.walletId].balance
       /\ calls[c].error.currentBalance # opened[calls[c].dto.walletId]

\* C13: WalletNotFound on apply.  An attempt that finds no wallet with the
\* requested id ends the call in that step with WalletNotFoundException for that
\* id; it is the call's first attempt, nothing is stored in that step, the call
\* is never taken up again, and the exception is raised in no other case.
WalletNotFoundContract ==
    [][ \A c \in DOMAIN calls :
           LET w == calls[c].dto.walletId
           IN  /\ NotRetried(c)
               /\ Loads(c) =>
                     (w \notin DOMAIN wallets
                        <=> calls'[c].outcome = "WalletNotFound")
               /\ (Steps(c) /\ calls'[c].outcome = "WalletNotFound") =>
                     /\ calls[c].pc = "load"
                     /\ calls'[c].pc = "done"
                     /\ calls[c].attempt = 1 /\ calls'[c].attempt = 1
                     /\ calls'[c].result = None
                     /\ calls'[c].error = WalletNotFoundException(w)
                     /\ calls'[c].error.class = "WalletNotFoundException"
                     /\ StoreUntouched
                     /\ wallets' = wallets
      ]_vars

\* C13 witness: a call with a new transactionId failed for a missing wallet while
\* the ledger and the wallets that do exist stayed as they were.
WalletNotFoundContractWitness ==
    \E c \in DOMAIN calls :
       /\ calls[c].outcome = "WalletNotFound"
       /\ calls[c].dto.walletId \notin DOMAIN wallets
       /\ EntriesWith(calls[c].dto.transactionId) = {}

\* the error classes the service gives a domain meaning of their own
TypedErrorClasses == {"WalletNotFoundException", "InsufficientFundsException"}

\* C14: UnsupportedCurrency.  A call whose currency has no rate ends on its first
\* attempt, with nothing stored, in an error of a class of its own that no other
\* failure of the service uses.  (The code raises a plain Error, the class of
\* any untyped failure, so the state predicate fails at the first such call.)
UnsupportedCurrencyTyped ==
    \A c \in DOMAIN calls :
       calls[c].outcome = "UnsupportedCurrency" =>
          /\ calls[c].pc = "done"
          /\ calls[c].attempt = 1
          /\ EntriesWith(calls[c].dto.transactionId) = {}
          /\ calls[c].error.class # "Error"
          /\ calls[c].error.class # MaximumRetriesError.class
          /\ calls[c].error.class \notin TypedErrorClasses

\* C15: ConcurrencyExhausted.  A call whose MAX_RETRIES attempts all lost the
\* wallet write has stored nothing and ends in the error raised after the loop;
\* the store's OptimisticLockVersionMismatchError never reaches the caller.
\* (The catch block rethrows the store's error on the last attempt.)
ConcurrencyExhausted ==
    \A c \in DOMAIN calls :
       /\ calls[c].error # OptimisticLockVersionMismatchError
       /\ ( /\ calls[c].pc = "done"
            /\ calls[c].attempt = MAX_RETRIES
            /\ Len(calls[c].delays) = MAX_RETRIES - 1
            /\ calls[c].outcome # "ok" )
          => /\ calls[c].error = MaximumRetriesError
             /\ EntriesWith(calls[c].dto.transactionId) = {}

(***************************************************************************)
(* The concurrent deposits with the event loop running: while some started *)
(* call has a pending continuation (a store round trip to complete, or the *)
(* finite timer of its sleep to fire), one of them is eventually run.      *)
(***************************************************************************)
SpecDepositsFair ==
    /\ SpecDeposits
    /\ WF_vars(\E c \in 1..Contenders :
                  Load(c) \/ SaveTransaction(c) \/ SaveWallet(c) \/ Commit(c))

\* the longest wait the loop can make between two attempts
MaxBackoff == BackoffDelay(MAX_RETRIES - 1)

\* C16: bounded retry and termination.  No call is ever in an attempt beyond
\* MAX_RETRIES, it sleeps at most MAX_RETRIES - 1 times and each time for a
\* bounded delay, and every call that has started ends (with an entry or an
\* error) whatever the other callers do: from any state in which calls are
\* under way a state follows in which none is, and a call once started is
\* never idle again, so each of them has ended by then.
BoundedRetry ==
    /\ [](\A c \in DOMAIN calls :
             /\ calls[c].attempt <= MAX_RETRIES
             /\ Len(calls[c].delays) <= MAX_RETRIES - 1
             /\ \A i \in DOMAIN calls[c].delays : calls[c].delays[i] <= MaxBackoff)
    /\ (~Quiescent) ~> Quiescent

\* C16 witness: a call ended on its last attempt after losing the two before,
\* next to a call that ended by committing on its last attempt.
BoundedRetryWitness ==
    /\ \E c \in DOMAIN calls :
          /\ Done(c) /\ calls[c].attempt = MAX_RETRIES
          /\ calls[c].outcome = "OptimisticLockVersionMismatch"
    /\ \E c \in DOMAIN calls :
          /\ Done(c) /\ calls[c].attempt = MAX_RETRIES
          /\ calls[c].outcome = "ok"

\* C17: transactionId uniqueness.  In every state no two entries of the ledger, of
\* the same wallet or of different wallets, carry the same transactionId.
TransactionIdUnique ==
    \A i, j \in DOMAIN ledger :
       ledger[i].transactionId = ledger[j].transactionId => i = j

\* C17 witness: a call raced another one that used the same transactionId on the
\* other wallet, and lost the insert; the entry of that transactionId stands.
TransactionIdUniqueWitness ==
    \E c \in DOMAIN calls :
       /\ calls[c].outcome = "QueryFailed"
       /\ \E i \in DOMAIN ledger :
             /\ ledger[i].transactionId = calls[c].dto.transactionId
             /\ ledger[i].walletId # calls[c].dto.walletId

\* the fields of a stored entry
EntryFields ==
    {"id", "transactionId", "walletId", "type", "amount", "subCent", "currency",
     "convertedAmount", "metadata", "createdAt"}

\* C18: append-only ledger.  Every step keeps every entry that exists, at its
\* place and with every field as it was; entries are only ever added.
AppendOnly ==
    [][ /\ Len(ledger') >= Len(ledger)
        /\ \A i \in DOMAIN ledger :
              /\ DOMAIN ledger'[i] = EntryFields
              /\ \A f \in EntryFields : ledger'[i][f] = ledger[i][f]
      ]_vars

\* C18 witness: a second entry has been committed after the first one, and the
\* first one still reads as it was returned to the call that committed it.
AppendOnlyWitness ==
    /\ Len(ledger) >= 2
    /\ \E c \in DOMAIN calls :
          calls[c].outcome = "ok" /\ calls[c].result = MapToResponseDto(ledger[1])

SupportedCurrencies == {code \in DOMAIN ExchangeRates : ~RateMissing(code)}

InitConvert ==
    /\ wallets = <<NewWallet(0, "EGP", 1)>>
    /\ ledger = <<>>
    /\ calls = NoCalls(1)
    /\ now = 1
    /\ opened = <<0>>
    /\ basis = <<>>
    /\ reads = <<>>

NextConvert ==
    \/ \E a \in 1..MaxAmount, code \in SupportedCurrencies :
          Lookup(1, Request(1, 1, DEPOSIT, a, code))
    \/ Load(1)
    \/ SaveTransaction(1)
    \/ SaveWallet(1)
    \/ Commit(1)

SpecConvert == InitConvert /\ [][NextConvert]_vars

\* a * rate[c] / rate[EGP] in hundredths, rounded half-up once, in exact arithmetic
RoundedHalfUp(amount, code) ==
    (2 * amount * ExchangeRates[code] + ExchangeRates["EGP"])
        \div (2 * ExchangeRates["EGP"])

\* C20: currency normalization.  A committed DEPOSIT of a in currency c returns an
\* entry whose convertedAmount is a * rate[c] / rate[EGP] rounded half-up to two
\* decimals, and the wallet's balance has risen by exactly that value.  (In
\* double arithmetic 2.65 AED gives 35.24, the exact product being 35.245.)
CurrencyNormalization ==
    \A c \in DOMAIN calls :
       (calls[c].outcome = "ok" /\ calls[c].dto.type = DEPOSIT) =>
          LET w == calls[c].dto.walletId
              expected == RoundedHalfUp(calls[c].dto.amount, calls[c].dto.currency)
          IN  /\ calls[c].result.convertedAmount = expected
              /\ EntryById(calls[c].result.id).convertedAmount = expected
              /\ wallets[w].balance = opened[w] + expected

(***************************************************************************)
(* Requests with their optional fields: the currency given in upper or     *)
(* lower case or left out, metadata given or left out, on one wallet, with *)
(* pairwise distinct transactionIds.                                       *)
(***************************************************************************)
Metadata == "{source: mobile}"

AuditRequest(transactionId, type, currency, metadata) ==
    [transactionId |-> transactionId, walletId |-> 1, type |-> type,
     amount |-> AuditAmount, subCent |-> 0, currency |-> currency,
     metadata |-> metadata]

\* a request whose amount has a third decimal: 1.504
SubCentRequest(transactionId, type, currency) ==
    [AuditRequest(transactionId, type, currency, Undefined) EXCEPT !.subCent = SubCent]

AuditRequests(transactionId) ==
    {AuditRequest(transactionId, k, v[1], v[2]) :
        k \in {DEPOSIT, WITHDRAWAL},
        v \in {<<"usd", Metadata>>, <<"AED", Undefined>>, <<"Gbp", Undefined>>,
               <<Undefined, Metadata>>}}
    \cup {SubCentRequest(transactionId, DEPOSIT, cur) : cur \in {"EGP", "USD"}}

InitAudit ==
    /\ wallets = <<NewWallet(ScenarioBalance, "EGP", 1)>>
    /\ ledger = <<>>
    /\ calls = NoCalls(NumCalls)
    /\ now = 1
    /\ opened = <<ScenarioBalance>>
    /\ basis = <<>>
    /\ reads = <<>>

NextAudit ==
    \/ \E c \in DOMAIN calls : \E dto \in AuditRequests(c) : Lookup(c, dto)
    \/ \E c \in DOMAIN calls : Load(c)
    \/ \E c \in DOMAIN calls : SaveTransaction(c)
    \/ \E c \in DOMAIN calls : SaveWallet(c)
    \/ \E c \in DOMAIN calls : Commit(c)

SpecAudit == InitAudit /\ [][NextAudit]_vars

\* C21: signed applied amount.  Every entry's convertedAmount is the converted
\* amount of its request, positive, with the sign + for a DEPOSIT and - for a
\* WITHDRAWAL, and the committing step moves the wallet's balance by exactly it.
\* (The last part fails for a commit made on a balance loaded before another
\* call's commit.)
SignedAppliedAmount ==
    /\ [](\A i \in DOMAIN ledger :
             \E c \in DOMAIN calls :
                /\ calls[c].outcome = "ok"
                /\ calls[c].result.id = ledger[i].id
                /\ LET normalized == ConvertedAmount(calls[c].dto)
                   IN  /\ normalized > 0
                       /\ ledger[i].type = DEPOSIT =>
                             ledger[i].convertedAmount = normalized
                       /\ ledger[i].type = WITHDRAWAL =>
                             ledger[i].convertedAmount = 0 - normalized
                       /\ ledger[i].type \in {DEPOSIT, WITHDRAWAL})
    /\ [][ \A c \in DOMAIN calls :
              Commits(c) =>
                 wallets'[calls[c].dto.walletId].balance
                    - wallets[calls[c].dto.walletId].balance
                  = ledger'[Len(ledger')].convertedAmount ]_vars

\* C22: verbatim audit fields.  The entry of every committed call carries the
\* request's amount, currency and metadata as they were supplied, the currency
\* being EGP when the request has none.  (An amount with a third decimal is
\* stored rounded to two, so the amount conjuncts fail.)
VerbatimAuditFields ==
    \A c \in DOMAIN calls :
       calls[c].outcome = "ok" =>
          LET entry == EntryById(calls[c].result.id)
              dto == calls[c].dto
          IN  /\ entry.transactionId = dto.transactionId
              /\ entry.amount = dto.amount
              /\ entry.subCent = dto.subCent
              /\ entry.currency
                    = (IF dto.currency = Undefined THEN "EGP" ELSE dto.currency)
              /\ entry.metadata = dto.metadata

\* C23: wallet creation.  Every wallet has been stored under an id of its own with
\* the balance it was created with, its currency and the initial version, and
\* no wallet has been created with a negative balance.  (createWallet stores
\* whatever balance it is given, so the last conjunct fails.)
WalletCreation ==
    /\ Len(opened) = Len(wallets)
    /\ \A w \in DOMAIN wallets :
          /\ wallets[w].currency = "EGP"
          /\ EntriesOf(w) = {} =>
                /\ wallets[w].balance = opened[w]
                /\ wallets[w].version = InitialVersion
          /\ opened[w] >= 0

\* the balance of wallet 1 after the requests of callers 1..n applied one after
\* the other, each with its funds check
RECURSIVE SequentialBalance(_)
SequentialBalance(n) ==
    IF n = 0 THEN opened[1]
    ELSE LET before == SequentialBalance(n - 1)
         IN  IF before + RequestedImpact(n) < 0 THEN before
             ELSE before + RequestedImpact(n)

\* C24: order independence.  Once all the concurrent calls (distinct
\* transactionIds, one wallet) have finished, the balance is the one that
\* applying the same requests one after the other gives, whichever order the
\* commits won in.  (A save made on a balance loaded before another call's
\* commit overwrites that commit, and a caller that loses three commits is
\* dropped, so the final balance depends on the order.)
OrderIndependence ==
    AllDone => wallets[1].balance = SequentialBalance(Len(calls))

(***************************************************************************)
(* Concurrent deposits followed by resubmissions: MAX_RETRIES + 1 callers, *)
(* the fewest of which one can be given up, deposit concurrently, and a    *)
(* client whose call was given up after MAX_RETRIES lost writes sends the  *)
(* same request again, up to Resubmits times.                              *)
(***************************************************************************)
\* call d lost the wallet write on each of its MAX_RETRIES attempts
Exhausted(d) ==
    /\ calls[d].pc = "done"
    /\ calls[d].outcome = "OptimisticLockVersionMismatch"
    /\ calls[d].attempt = MAX_RETRIES

InitResubmit ==
    /\ wallets = <<NewWallet(ScenarioBalance, "EGP", 1)>>
    /\ ledger = <<>>
    /\ calls = NoCalls(MAX_RETRIES + 1 + Resubmits)
    /\ now = 1
    /\ opened = <<ScenarioBalance>>
    /\ basis = <<>>
    /\ reads = <<>>

NextResubmit ==
    \/ \E c \in 1..(MAX_RETRIES + 1) : Lookup(c, DepositOf(c))
    \/ \E c \in (MAX_RETRIES + 2)..(MAX_RETRIES + 1 + Resubmits) :
          \E d \in 1..(MAX_RETRIES + 1) : Exhausted(d) /\ Lookup(c, calls[d].dto)
    \/ \E c \in DOMAIN calls : Load(c)
    \/ \E c \in DOMAIN calls : SaveTransaction(c)
    \/ \E c \in DOMAIN calls : SaveWallet(c)
    \/ \E c \in DOMAIN calls : Commit(c)

SpecResubmit == InitResubmit /\ [][NextResubmit]_vars

GET_BALANCE == "getBalance"
GET_HISTORY == "getTransactionHistory"
VALIDATE == "validateBalanceConsistency"

ReadOperations == {GET_BALANCE, GET_HISTORY, VALIDATE}

IdleRead ==
    [pc |-> "idle", op |-> "none", walletId |-> 0, wallet |-> None,
     sum |-> 0, outcome |-> "none", result |-> None, error |-> None]

NoReads(n) == [r \in 1..n |-> IdleRead]

\* walletRepository.findOne({where: {id: walletId}}) and the !wallet check of the
\* three operations; getBalance returns here
ReadWallet(r, op, walletId) ==
    /\ reads[r].pc = "idle"
    /\ IF r = 1 THEN TRUE ELSE reads[r - 1].pc # "idle"
    /\ LET wallet == FindWallet(wallets, walletId)
           read == [reads[r] EXCEPT !.op = op, !.walletId = walletId]
       IN  reads' = [reads EXCEPT ![r] =
               IF wallet = None
               THEN [read EXCEPT !.pc = "done",
                                 !.outcome = "WalletNotFound",
                                 !.error = WalletNotFoundException(walletId)]
               ELSE IF op = GET_BALANCE
               THEN [read EXCEPT !.pc = "done",
                                 !.outcome = "ok",
                                 !.wallet = wallet,
                                 !.result = BalanceResponse(walletId, wallet)]
               ELSE [read EXCEPT !.pc = "query", !.wallet = wallet]]
    /\ wallets' = WalletsAfterRead(wallets, walletId, now)
    /\ UNCHANGED <<ledger, calls, now, opened, basis>>

\* the second query: transactionRepository.find of getTransactionHistory, or the
\* SUM(convertedAmount) of validateBalanceConsistency and its comparison with
\* the balance loaded by the first query
ReadTransactions(r) ==
    /\ reads[r].pc = "query"
    /\ LET read == reads[r]
           calculatedBalance == SumConvertedAmount(ledger, read.walletId)
       IN  \E transactions \in FindTransactions(ledger, read.walletId) :
              reads' = [reads EXCEPT ![r] =
                  IF read.op = GET_HISTORY
                  THEN [read EXCEPT !.pc = "done",
                                    !.outcome = "ok",
                                    !.result = MapAllToResponseDto(transactions)]
                  ELSE [read EXCEPT !.pc = "done",
                                    !.outcome = "ok",
                                    !.sum = calculatedBalance,
                                    !.result = IsConsistent(read.wallet.balance,
                                                            calculatedBalance)]]
    /\ UNCHANGED <<wallets, ledger, calls, now, opened, basis>>

\* one wallet, created with nothing or with one hundredth, small deposits and
\* withdrawals on it, and reads of it and of a wallet that does not exist
ReadBalances == {0, Tolerance}

ReadRequests(c) ==
    {Request(c, 1, k, CentAmount, "EGP") : k \in {DEPOSIT, WITHDRAWAL}}

InitReads ==
    /\ wallets = <<>>
    /\ ledger = <<>>
    /\ calls = NoCalls(ReadWriters)
    /\ now = 0
    /\ opened = <<>>
    /\ basis = <<>>
    /\ reads = NoReads(NumReads)

NextReads ==
    \/ \E b \in ReadBalances : wallets = <<>> /\ CreateWallet(b, "EGP")
    \/ \E c \in DOMAIN calls : \E dto \in ReadRequests(c) : Lookup(c, dto)
    \/ \E c \in DOMAIN calls : Load(c)
    \/ \E c \in DOMAIN calls : SaveTransaction(c)
    \/ \E c \in DOMAIN calls : SaveWallet(c)
    \/ \E c \in DOMAIN calls : Commit(c)
    \/ \E r \in DOMAIN reads, op \in ReadOperations, w \in {1, 2} :
          ReadWallet(r, op, w)
    \/ \E r \in DOMAIN reads : ReadTransactions(r)

SpecReads == InitReads /\ [][NextReads]_vars

\* read operation r takes a step of its own
ReadSteps(r) == reads'[r] # reads[r]

\* C26: read operations are read-only.  A step of getBalance,
\* getTransactionHistory or validateBalanceConsistency, whatever it returns and
\* wherever it falls among the steps of createTransaction calls, leaves every
\* wallet (balance, version, updatedAt) and every ledger entry as they were.
ReadsAreReadOnly ==
    [][ (\E r \in DOMAIN reads : ReadSteps(r)) =>
           /\ wallets' = wallets
           /\ ledger' = ledger
           /\ calls' = calls ]_vars

\* C26 witness: a read that takes two queries finished after a commit fell
\* between them, next to a read that failed for a missing wallet.
ReadsAreReadOnlyWitness ==
    /\ \E r \in DOMAIN reads :
          /\ reads[r].pc = "done" /\ reads[r].outcome = "ok"
          /\ reads[r].op \in {GET_HISTORY, VALIDATE}
          /\ reads[r].wallet.version < wallets[reads[r].walletId].version
    /\ \E r \in DOMAIN reads : reads[r].outcome = "WalletNotFound"

\* C27: WalletNotFound on reads.  The first query of a read operation ends it
\* with WalletNotFoundException exactly when no wallet has the given id; for an
\* existing wallet, with or without entries, the operation goes on and its
\* second query never fails.
ReadWalletNotFound ==
    [][ \A r \in DOMAIN reads :
           /\ (reads[r].pc = "idle" /\ ReadSteps(r)) =>
                 /\ reads'[r].op \in ReadOperations
                 /\ reads'[r].walletId \notin DOMAIN wallets
                       <=> reads'[r].outcome = "WalletNotFound"
                 /\ reads'[r].outcome = "WalletNotFound" =>
                       /\ reads'[r].pc = "done"
                       /\ reads'[r].error
                             = WalletNotFoundException(reads'[r].walletId)
                 /\ reads'[r].walletId \in DOMAIN wallets =>
                       reads'[r].outcome \in {"none", "ok"}
           /\ (reads[r].pc = "query" /\ ReadSteps(r)) =>
                 /\ reads'[r].pc = "done"
                 /\ reads'[r].outcome = "ok"
                 /\ reads'[r].error = None
           /\ reads[r].pc = "done" => reads'[r] = reads[r]
      ]_vars

\* C27 witness: a read of a missing wallet failed, and a two-query read of a
\* wallet without entries succeeded.
ReadWalletNotFoundWitness ==
    /\ \E r \in DOMAIN reads :
          /\ reads[r].outcome = "WalletNotFound"
          /\ reads[r].walletId \notin DOMAIN wallets
    /\ \E r \in DOMAIN reads :
          /\ reads[r].outcome = "ok"
          /\ reads[r].op \in {GET_HISTORY, VALIDATE}
          /\ EntriesOf(reads[r].walletId) = {}

\* C28: consistency checker result.  validateBalanceConsistency returns true
\* exactly when the balance it loaded and the sum of convertedAmount over the
\* wallet's entries (0 without entries) differ by less than 0.01.  (In double
\* arithmetic 0.03 - 0.02 < 0.01, so a difference of exactly 0.01 can pass.)
ConsistencyResult ==
    \A r \in DOMAIN reads :
       (reads[r].op = VALIDATE /\ reads[r].outcome = "ok") =>
          /\ reads[r].result \in BOOLEAN
          /\ reads[r].result
                <=> Abs(reads[r].wallet.balance - reads[r].sum) < Tolerance

\* C29: idempotent hit has no effect.  When the lookup finds an entry with the
\* request's transactionId, the call ends in that step, without an attempt and
\* so without a store transaction; wallets and ledger are as before; and what
\* it returns are the fields of the stored entry, whatever the request says.
IdempotentHit ==
    [][ \A c \in DOMAIN calls :
           (calls[c].pc = "idle" /\ Steps(c)) =>
              LET found == EntriesWith(calls'[c].dto.transactionId)
              IN  /\ wallets' = wallets
                  /\ ledger' = ledger
                  /\ found # {} <=> calls'[c].outcome = "hit"
                  /\ found # {} =>
                        /\ calls'[c].pc = "done"
                        /\ calls'[c].attempt = 0
                        /\ calls'[c].loaded = None
                        /\ \E i \in found :
                              /\ DOMAIN calls'[c].result = EntryFields
                              /\ \A f \in EntryFields :
                                    calls'[c].result[f] = ledger[i][f]
      ]_vars

\* C29 witness: a request that reuses the transactionId of a committed
\* withdrawal, but asks for a deposit, was answered with the stored withdrawal.
IdempotentHitWitness ==
    \E c \in DOMAIN calls :
       /\ calls[c].outcome = "hit"
       /\ calls[c].dto.type = DEPOSIT
       /\ calls[c].result.type = WITHDRAWAL
       /\ calls[c].result.convertedAmount < 0
       /\ wallets[calls[c].result.walletId].version = InitialVersion + 1

Unretryable == {"WalletNotFound", "UnsupportedCurrency", "InsufficientFunds"}

\* the error object executeTransaction raises for call c in the current state
RaisedError(c, outcome) ==
    LET dto == calls[c].dto
    IN  CASE outcome = "WalletNotFound" -> WalletNotFoundException(dto.walletId)
          [] outcome = "UnsupportedCurrency" ->
                UnsupportedCurrencyError(ToUpperCase(dto.currency))
          [] outcome = "InsufficientFunds" ->
                InsufficientFundsException(wallets[dto.walletId].balance,
                                           Abs(RequestedImpact(c)))

\* C31: only version conflicts are retried.  An attempt that fails with
\* WalletNotFound, an unsupported currency or InsufficientFunds ends the call in
\* that step, on the same attempt and without a sleep, with the error as it
\* was raised; a further attempt is started only by a lost wallet write, with
\* one sleep; and a lost write reaches the caller only from the last attempt,
\* so a call that commits on a later attempt returns its entry and no error.
OnlyConflictsRetried ==
    [][ \A c \in DOMAIN calls :
           /\ NotRetried(c)
           /\ (Steps(c) /\ calls'[c].outcome \in Unretryable) =>
                 /\ Loads(c)
                 /\ calls'[c].pc = "done"
                 /\ calls'[c].attempt = AttemptAtStep(c)
                 /\ calls'[c].delays = calls[c].delays
                 /\ calls'[c].error = RaisedError(c, calls'[c].outcome)
                 /\ calls'[c].result = None
           /\ (Steps(c) /\ calls[c].attempt > 0
                         /\ calls'[c].attempt # calls[c].attempt) =>
                 /\ calls[c].pc = "sleep"
                 /\ calls'[c].attempt = calls[c].attempt + 1
                 /\ calls'[c].delays = calls[c].delays
           /\ (Steps(c) /\ calls'[c].pc = "sleep") =>
                 /\ calls[c].pc = "write"
                 /\ calls[c].loaded.version
                       # wallets[calls[c].dto.walletId].version
                 /\ calls'[c].attempt = calls[c].attempt
                 /\ Len(calls'[c].delays) = Len(calls[c].delays) + 1
                 /\ calls'[c].outcome = "none"
                 /\ calls'[c].error = None
           /\ (Steps(c) /\ calls'[c].outcome = "OptimisticLockVersionMismatch") =>
                 calls[c].attempt = MAX_RETRIES
           /\ Commits(c) =>
                 /\ calls'[c].error = None
                 /\ calls'[c].result = MapToResponseDto(ledger'[Len(ledger')])
      ]_vars

\* C31 witness: a call lost its first write, was retried after one sleep without
\* the caller seeing the conflict, and its second attempt ended the call with
\* InsufficientFunds at once.
OnlyConflictsRetriedWitness ==
    \E c \in DOMAIN calls :
       /\ calls[c].outcome = "InsufficientFunds"
       /\ calls[c].attempt = 2
       /\ Len(calls[c].delays) = 1
       /\ calls[c].error.class = "InsufficientFundsException"

\* C32: exponential backoff.  A call has slept once after each attempt that lost
\* its write and was followed by another, and never otherwise; the first sleep
\* is 100 ms and each further one is twice the one before.  (The code sleeps
\* 2^attempt * 100 ms with attempt counted from 1: 200 ms, then 400 ms.)
ExponentialBackoff ==
    \A c \in DOMAIN calls :
       /\ calls[c].attempt > 0 =>
             Len(calls[c].delays) = AttemptAtStep(c) - 1
       /\ calls[c].attempt = 0 => calls[c].delays = <<>>
       /\ \A i \in DOMAIN calls[c].delays :
             calls[c].delays[i] = 100 * 2 ^ (i - 1)

(***************************************************************************)
(* One wallet created with the request amount, or one hundredth less or    *)
(* more, and deposits and withdrawals of that amount, by one caller more   *)
(* than in the general specification, so that a commit can fall between    *)
(* the load and the write of an attempt and another one after it.          *)
(***************************************************************************)
BoundaryBalances == {Amount - Tolerance, Amount, Amount + Tolerance}

BoundaryRequests(c) ==
    {Request(c, 1, k, Amount, "EGP") : k \in {DEPOSIT, WITHDRAWAL}}

InitBoundary ==
    /\ wallets = <<>>
    /\ ledger = <<>>
    /\ calls = NoCalls(NumCalls + 1)
    /\ now = 0
    /\ opened = <<>>
    /\ basis = <<>>
    /\ reads = <<>>

NextBoundary ==
    \/ \E b \in BoundaryBalances : wallets = <<>> /\ CreateWallet(b, "EGP")
    \/ \E c \in DOMAIN calls : \E dto \in BoundaryRequests(c) :
          wallets # <<>> /\ Lookup(c, dto)
    \/ \E c \in DOMAIN calls : Load(c)
    \/ \E c \in DOMAIN calls : SaveTransaction(c)
    \/ \E c \in DOMAIN calls : SaveWallet(c)
    \/ \E c \in DOMAIN calls : Commit(c)

SpecBoundary == InitBoundary /\ [][NextBoundary]_vars

BalanceIsInitialPlusLedger ==
    \A w \in DOMAIN wallets :
       wallets[w].balance = opened[w] + SumConvertedAmount(ledger, w)

(***************************************************************************)
(* One wallet and requests that, taken alone, would commit or would fail:  *)
(* on a wallet that does not exist, in a currency without rate, or for     *)
(* more than the wallet holds.                                             *)
(***************************************************************************)
HitRequests ==
    UNION {{Request(t, 1, DEPOSIT, ScenarioAmount, "EGP"),
            Request(t, 1, WITHDRAWAL, ScenarioAmount, "USD"),
            Request(t, 2, DEPOSIT, ScenarioAmount, "EGP"),
            Request(t, 1, DEPOSIT, ScenarioAmount, "XYZ"),
            Request(t, 1, WITHDRAWAL, ScenarioBalance + ScenarioAmount, "EGP")} :
           t \in 1..MaxTxIds}

InitHit ==
    /\ wallets = <<NewWallet(ScenarioBalance, "EGP", 1)>>
    /\ ledger = <<>>
    /\ calls = NoCalls(NumCalls)
    /\ now = 1
    /\ opened = <<ScenarioBalance>>
    /\ basis = <<>>
    /\ reads = <<>>

NextHit ==
    \/ \E c \in DOMAIN calls, dto \in HitRequests : Lookup(c, dto)
    \/ \E c \in DOMAIN calls : Load(c)
    \/ \E c \in DOMAIN calls : SaveTransaction(c)
    \/ \E c \in DOMAIN calls : SaveWallet(c)
    \/ \E c \in DOMAIN calls : Commit(c)

SpecHit == InitHit /\ [][NextHit]_vars

\* the request of call c would fail if it were evaluated
WouldFail(c) ==
    LET dto == calls[c].dto
    IN  \/ dto.walletId \notin DOMAIN wallets
        \/ ToEGPThrows(dto.currency)
        \/ wallets[dto.walletId].balance + RequestedImpact(c) < 0

\* C35: the lookup keys on the transactionId alone and comes first.  A call whose
\* transactionId is on the ledger when it is made returns the stored entry in
\* its first step, whatever its other fields are: a wallet that does not
\* exist, a currency without rate, or an amount the wallet cannot cover raise
\* nothing, and no wallet and no entry changes.  The errors are raised only by
\* calls that found no entry.
LookupComesFirst ==
    [][ \A c \in DOMAIN calls :
           /\ NotRetried(c)
           /\ (calls[c].pc = "idle" /\ Steps(c)
                  /\ EntriesWith(calls'[c].dto.transactionId) # {}) =>
                 /\ calls'[c].pc = "done"
                 /\ calls'[c].outcome = "hit"
                 /\ calls'[c].error = None
                 /\ \E i \in EntriesWith(calls'[c].dto.transactionId) :
                       calls'[c].result = MapToResponseDto(ledger[i])
                 /\ wallets' = wallets
                 /\ ledger' = ledger
           /\ (Steps(c) /\ calls'[c].outcome \in Unretryable) => Loads(c)
      ]_vars

\* C35 witness: a call on a wallet that does not exist was answered with the
\* entry another wallet's deposit had stored under the same transactionId.
LookupComesFirstWitness ==
    \E c \in DOMAIN calls :
       /\ calls[c].outcome = "hit"
       /\ WouldFail(c)
       /\ calls[c].dto.walletId \notin DOMAIN wallets
       /\ calls[c].result.walletId = 1
       /\ wallets[1].version = InitialVersion + 1

(***************************************************************************)
(* An empty wallet, a withdrawal and a deposit with transactionIds of      *)
(* their own, sent any number of times by one caller more than NumCalls.   *)
(***************************************************************************)
AgainRequests ==
    {Request(1, 1, WITHDRAWAL, ScenarioAmount, "EGP"),
     Request(2, 1, DEPOSIT, ScenarioAmount, "EGP")}

InitAgain ==
    /\ wallets = <<NewWallet(0, "EGP", 1)>>
    /\ ledger = <<>>
    /\ calls = NoCalls(NumCalls + 1)
    /\ now = 1
    /\ opened = <<0>>
    /\ basis = <<>>
    /\ reads = <<>>

NextAgain ==
    \/ \E c \in DOMAIN calls, dto \in AgainRequests : Lookup(c, dto)
    \/ \E c \in DOMAIN calls : Load(c)
    \/ \E c \in DOMAIN calls : SaveTransaction(c)
    \/ \E c \in DOMAIN calls : SaveWallet(c)
    \/ \E c \in DOMAIN calls : Commit(c)

SpecAgain == InitAgain /\ [][NextAgain]_vars

\* call c has ended in an error
Failed(c) == calls[c].pc = "done" /\ calls[c].outcome \notin {"ok", "hit"}

\* C36: failed requests do not consume their transactionId.  The ledger holds
\* one entry per call that committed and none for a call that failed; the step
\* in which a call fails stores nothing; and a call whose transactionId is not
\* on the ledger, earlier failures under it or not, goes to a first attempt
\* that is decided on the state of the wallet at that moment.
FailureKeepsIdFree ==
    /\ [](/\ Len(ledger) = Cardinality(CallsWith("ok"))
          /\ \A c \in DOMAIN calls :
                Failed(c) =>
                   \A i \in EntriesWith(calls[c].dto.transactionId) :
                      \E d \in CallsWith("ok") :
                         d # c /\ calls[d].result.id = ledger[i].id)
    /\ [][ \A c \in DOMAIN calls :
              /\ (Steps(c) /\ Failed(c)') => StoreUntouched
              /\ (calls[c].pc = "idle" /\ Steps(c)
                     /\ EntriesWith(calls'[c].dto.transactionId) = {}) =>
                    /\ calls'[c].pc = "load"
                    /\ calls'[c].attempt = 1
                    /\ calls'[c].outcome = "none"
              /\ Loads(c) => (calls'[c].pc = "insert" <=> ~WouldFail(c))
          ]_vars

\* C36 witness: a withdrawal was rejected for insufficient funds, a deposit
\* followed, and the same withdrawal request, sent again, has committed.
FailureKeepsIdFreeWitness ==
    \E c, d \in DOMAIN calls :
       /\ c < d
       /\ calls[c].outcome = "InsufficientFunds"
       /\ calls[d].outcome = "ok"
       /\ calls[c].dto = calls[d].dto
       /\ calls[c].dto.type = WITHDRAWAL
       /\ \E i \in DOMAIN ledger :
             /\ EntriesWith(calls[c].dto.transactionId) = {i}
             /\ ledger[i].id = calls[d].result.id
       /\ wallets[1].balance = 0

-----------------------------------------------------------------------------
(***************************************************************************)
(* Contention next to another wallet: one caller deposits into wallet 2    *)
(* while MAX_RETRIES + 1 callers, the fewest of which one can be given up, *)
(* deposit into wallet 1, each with a transactionId of its own.  The       *)
(* caller on wallet 2 came first: it has inserted its entry and written    *)
(* its wallet row, none of which the others can see, and its commit falls  *)
(* anywhere among the steps of the others.                                 *)
(***************************************************************************)
ContendOf(c) ==
    Request(c, IF c = 1 THEN 2 ELSE 1, DEPOSIT, ScenarioAmount, "EGP")

\* the first caller after its lookup, load, insert and wallet write
AboutToCommit ==
    LET dto == ContendOf(1)
        wallet == NewWallet(ScenarioBalance, "EGP", 2)
        impact == TransactionImpact(dto.type, ConvertedAmount(dto))
    IN  [IdleCall EXCEPT
            !.pc = "commit", !.dto = dto, !.attempt = 1, !.loaded = wallet,
            !.firstVersion = wallet.version, !.impact = impact,
            !.newBalance = wallet.balance + impact,
            !.transaction = NewTransaction(GeneratedId(1, 1), dto, impact, 3),
            !.written = SavedWallet(wallet, wallet.balance + impact, 3)]

InitContend ==
    /\ wallets = <<NewWallet(ScenarioBalance, "EGP", 1),
                   NewWallet(ScenarioBalance, "EGP", 2)>>
    /\ ledger = <<>>
    /\ calls = [c \in 1..(MAX_RETRIES + 2) |->
                  IF c = 1 THEN AboutToCommit ELSE IdleCall]
    /\ now = 2
    /\ opened = <<ScenarioBalance, ScenarioBalance>>
    /\ basis = <<>>
    /\ reads = <<>>

NextContend ==
    \/ \E c \in DOMAIN calls : Lookup(c, ContendOf(c))
    \/ \E c \in DOMAIN calls : Load(c)
    \/ \E c \in DOMAIN calls : SaveTransaction(c)
    \/ \E c \in DOMAIN calls : SaveWallet(c)
    \/ \E c \in DOMAIN calls : Commit(c)

SpecContend == InitContend /\ [][NextContend]_vars

\* the step in which an attempt of call c loses the wallet write
LosesWrite(c) ==
    /\ calls[c].pc = "write"
    /\ Steps(c)
    /\ \/ calls'[c].pc = "sleep"
       \/ calls'[c].outcome = "OptimisticLockVersionMismatch"

\* the entries committed on the wallet of call c, by other calls, after the
\* load of c's current attempt: the ledger holds the entries in the order of
\* their commits, and the version that was loaded counts the commits made on
\* the wallet before the load
CommittedSinceLoad(c) ==
    LET w == calls[c].dto.walletId
    IN  {i \in EntriesOf(w) :
            /\ ledger[i].transactionId # calls[c].dto.transactionId
            /\ InitialVersion + Cardinality({j \in EntriesOf(w) : j <= i})
                  > calls[c].loaded.version}

\* the calls that have been made on a wallet
CallsOn(walletId) ==
    {d \in DOMAIN calls :
        calls[d].pc # "idle" /\ calls[d].dto.walletId = walletId}

\* the step in which call c is given up
GivesUp(c) == Steps(c) /\ Exhausted(c)'

\* no entry of call c is in the ledger, and at least MAX_RETRIES entries of
\* other calls were committed on its wallet after the first load of the call
CommittedSinceFirstLoad(c) ==
    LET w == calls[c].dto.walletId
        v == calls[c].firstVersion
    IN  /\ EntriesWith(calls[c].dto.transactionId) = {}
        /\ Cardinality(EntriesOf(w)) >= (v - InitialVersion) + MAX_RETRIES
        /\ wallets[w].version >= v + MAX_RETRIES

-----------------------------------------------------------------------------
(***************************************************************************)
(* A wallet kept in a currency of its own: the wallet is created empty     *)
(* with currency EGP or USD, and the requests, each with a transactionId   *)
(* of its own, name either currency.                                       *)
(***************************************************************************)
WalletCurrencies == {"EGP", "USD"}

ForeignRequests(c) ==
    {Request(c, 1, k, Amount, cur) :
        k \in {DEPOSIT, WITHDRAWAL}, cur \in WalletCurrencies}

InitForeign ==
    /\ wallets = <<>>
    /\ ledger = <<>>
    /\ calls = NoCalls(NumCalls)
    /\ now = 0
    /\ opened = <<>>
    /\ basis = <<>>
    /\ reads = <<>>

NextForeign ==
    \/ \E cur \in WalletCurrencies : wallets = <<>> /\ CreateWallet(0, cur)
    \/ \E c \in DOMAIN calls : \E dto \in ForeignRequests(c) : Lookup(c, dto)
    \/ \E c \in DOMAIN calls : Load(c)
    \/ \E c \in DOMAIN calls : SaveTransaction(c)
    \/ \E c \in DOMAIN calls : SaveWallet(c)
    \/ \E c \in DOMAIN calls : Commit(c)

SpecForeign == InitForeign /\ [][NextForeign]_vars

====
